---- MODULE Spec2Model ----
(***************************************************************************)
(* getDocWrapper (src/src/index.ts): a cache decision engine in front of   *)
(* Firestore's getDoc, backed by an idb-keyval store, plus a bounded retry *)
(* wrapper (requestDoc) around the remote fetch.                           *)
(*                                                                         *)
(* A call is modelled by its suspension points: the opening of the store,  *)
(* the store get, the store del, each remote attempt and each              *)
(* inter-attempt timeout.  The code that runs between two suspension       *)
(* points is one action.  The store applies its operations in the order in *)
(* which they are issued; the clock runs on whatever the calls do.         *)
(***************************************************************************)
EXTENDS Integers, FiniteSets, Sequences, TLC

(***************************************************************************)
(* JavaScript values that are not ordinary numbers.                        *)
(***************************************************************************)
\* `undefined`: an absent option, an absent entry field, a non-existent document
Undefined == -1
\* Number.POSITIVE_INFINITY
Infinity == -2
\* NaN, the result of arithmetic on undefined
NaN == -3

(***************************************************************************)
(* Bounds of the model.                                                    *)
(***************************************************************************)
\* the clock (Date.now()) runs over 0..MaxTime
MaxTime == 2
\* maxRetries a caller passes: 0..MaxRetriesArg (besides undefined)
MaxRetriesArg == 3
\* calls the two-call scenario makes and keeps
MaxLogged == 2

\* cache times a caller passes
CacheTimes == {Undefined, 0, 1, Infinity}
\* document payloads the remote store holds (Undefined: the document does not exist)
Docs == {Undefined, 1, 2}
\* error codes a failing getDoc carries
ErrorCodes == {"c1", "c2"}
\* the paths of the store
Paths == {"p"}
\* call slots
Calls == {1, 2}
FirstCall == CHOOSE c \in Calls : \A d \in Calls : c <= d

\* maxRetries || 3
DefaultMaxRetries == 3

VARIABLES
    store,       \* idb-keyval store "firestoreWrapperCache": path -> entry
    remote,      \* the remote document at each path (what getDoc would return)
    now,         \* Date.now()
    pc,          \* per call: the suspension point it is at
    args,        \* per call: path and options
    cacheEntry,  \* per call: the entry its get read
    retries,     \* per call: requestDoc's closed-over counter
    due,         \* per call: when the pending timeout(retryDelay) fires
    outcome,     \* per call: what the promise settled with
    stats,       \* per call: observation of what the call issued
    log          \* the calls that returned, oldest first (kept by the two-call scenario)

vars == <<store, remote, now, pc, args, cacheEntry, retries, due, outcome, stats, log>>

(***************************************************************************)
(* Data shapes.                                                            *)
(***************************************************************************)
\* the value get() yields for a missing key: every optional-chained read is undefined
NoEntry == [doc |-> Undefined, fetchedAt |-> Undefined, persistentCacheTime |-> Undefined]

\* type CacheOptions (enabled/locked/bypassLockedTime/forceRefresh: FALSE is unset or false)
CacheOptions ==
    [enabled : BOOLEAN, time : CacheTimes, locked : BOOLEAN,
     bypassLockedTime : BOOLEAN, forceRefresh : BOOLEAN]

\* retryOnErrorCode: absent, or an array of codes
NoErrorCodeList == [defined |-> FALSE, codes |-> {}]
ErrorCodeLists == {NoErrorCodeList} \cup {[defined |-> TRUE, codes |-> S] : S \in {{}, {"c1"}}}

\* type RetryOptions
RetryOptions ==
    [enabled : BOOLEAN, maxRetries : {Undefined} \cup 0..MaxRetriesArg, retryDelay : {Undefined, 1, 2},
     retryOnErrorCode : ErrorCodeLists]

NoCacheOptions ==
    [enabled |-> FALSE, time |-> Undefined, locked |-> FALSE,
     bypassLockedTime |-> FALSE, forceRefresh |-> FALSE]
NoRetryOptions ==
    [enabled |-> FALSE, maxRetries |-> Undefined, retryDelay |-> Undefined,
     retryOnErrorCode |-> NoErrorCodeList]

NoArgs == [path |-> "p", cacheOptions |-> NoCacheOptions, retryOptions |-> NoRetryOptions]

Pending == [kind |-> "pending", doc |-> Undefined, code |-> "none"]
Resolved(d) == [kind |-> "doc", doc |-> d, code |-> "none"]
\* the error getDoc rejected with, passed on as it is
RemoteError(code) == [kind |-> "remote-error", doc |-> Undefined, code |-> code]
\* new Error("Firestore threw an error but its code was not in the list ...")
NonRetryableError == [kind |-> "non-retryable", doc |-> Undefined, code |-> "none"]

\* the error a get, del or set of the store rejected with
StoreError(op) == [kind |-> "store-error", doc |-> Undefined, code |-> op]

NoStats ==
    [fetches |-> 0, failures |-> 0, delays |-> 0, sets |-> 0, dels |-> 0,
     lastCode |-> "none", served |-> FALSE, failedOp |-> "none", resolvedAt |-> 0]

(***************************************************************************)
(* JavaScript operators.                                                   *)
(***************************************************************************)
\* x is truthy (numbers: neither undefined nor 0; Infinity is truthy)
Truthy(x) == x # Undefined /\ x # 0 /\ x # NaN

\* a - b on numbers; undefined operand gives NaN
Minus(a, b) == IF a \in {Undefined, NaN} \/ b \in {Undefined, NaN} THEN NaN ELSE a - b

\* a <= b written for a < b
LessThanOrEqual(a, b) ==
    IF a \in {Undefined, NaN} \/ b \in {Undefined, NaN} THEN FALSE
    ELSE IF a = Infinity THEN b = Infinity
    ELSE IF b = Infinity THEN TRUE
    ELSE a <= b

\* a < b; false when either side is NaN or undefined
LessThan(a, b) ==
    IF a \in {Undefined, NaN} \/ b \in {Undefined, NaN} THEN FALSE
    ELSE IF a = Infinity THEN FALSE
    ELSE IF b = Infinity THEN TRUE
    ELSE a < b

\* x || d
OrDefault(x, d) == IF Truthy(x) THEN x ELSE d

(***************************************************************************)
(* requestDoc: the retry policy.                                           *)
(***************************************************************************)
\* maxRetries ?? 3 written for maxRetries || 3: a budget of 0 is kept
MaxRetriesKeepsZero(ro) ==
    IF ro.maxRetries = Undefined THEN DefaultMaxRetries ELSE ro.maxRetries

RetryDelay(ro) == OrDefault(ro.retryDelay, 0)
MaxRetries(ro) == OrDefault(ro.maxRetries, DefaultMaxRetries)

\* the budget test off by one: retries < maxRetries
OnFetchErrorOneMore(ro, r, code) ==
    IF ro.enabled /\ r < OrDefault(ro.maxRetries, DefaultMaxRetries)
    THEN IF ~ro.retryOnErrorCode.defined THEN "retry"
         ELSE IF code \in ro.retryOnErrorCode.codes THEN "retry"
         ELSE "non-retryable"
    ELSE "throw"

\* the allow-list never looked at
OnFetchErrorNoList(ro, r, code) ==
    IF ro.enabled /\ r < OrDefault(ro.maxRetries, DefaultMaxRetries) - 1
    THEN "retry"
    ELSE "throw"

\* retryOptions.enabled never looked at
OnFetchErrorNoSwitch(ro, r, code) ==
    IF r < OrDefault(ro.maxRetries, DefaultMaxRetries) - 1
    THEN IF ~ro.retryOnErrorCode.defined THEN "retry"
         ELSE IF code \in ro.retryOnErrorCode.codes THEN "retry"
         ELSE "non-retryable"
    ELSE "throw"

\* the allow-list looked at before the budget
OnFetchErrorListFirst(ro, r, code) ==
    IF ~ro.enabled THEN "throw"
    ELSE IF ro.retryOnErrorCode.defined /\ code \notin ro.retryOnErrorCode.codes
         THEN "non-retryable"
    ELSE IF r < OrDefault(ro.maxRetries, DefaultMaxRetries) - 1 THEN "retry"
    ELSE "throw"

\* the catch block of request(): what happens to a failure with `code` when the
\* counter is at `r`: "retry" (after the timeout), "non-retryable" or "throw"
OnFetchError(ro, r, code) ==
    IF ro.enabled /\ r < MaxRetries(ro) - 1
    THEN IF ~ro.retryOnErrorCode.defined THEN "retry"
         ELSE IF code \in ro.retryOnErrorCode.codes THEN "retry"
         ELSE "non-retryable"
    ELSE "throw"

\* retries++ runs inside the budget test, before the allow-list is looked at
RetriesAfterError(ro, r) ==
    IF ro.enabled /\ r < MaxRetries(ro) - 1 THEN r + 1 ELSE r

(***************************************************************************)
(* getDocWrapper: the cache decision.                                      *)
(***************************************************************************)
\* the entry is fresh against ttl at time t
Fresh(e, t, ttl) == LessThan(Minus(t, e.fetchedAt), ttl)

\* the cache-disabled branch writing its result like the others
StoresResultAlways(co) == TRUE

\* whether the branch the call is in writes what it fetched to the store
StoresResult(co) == co.enabled

\* forceRefresh tested after the freshness checks instead of before them
DecideForceLast(e, co, t) ==
    IF ~co.enabled
    THEN IF Fresh(e, t, e.persistentCacheTime) THEN "serve" ELSE "fetch"
    ELSE IF e = NoEntry THEN "fetch"
    ELSE IF Truthy(e.persistentCacheTime) /\ ~co.bypassLockedTime
         THEN IF co.locked
              THEN IF Fresh(e, t, co.time) THEN "serve" ELSE "refetch"
              ELSE IF Fresh(e, t, e.persistentCacheTime) THEN "serve" ELSE "refetch"
         ELSE IF Fresh(e, t, co.time) THEN "serve" ELSE "refetch"

\* the locked cache time never looked at: always the one-time cache time
DecideOneTimeOnly(e, co, t) ==
    IF ~co.enabled
    THEN IF Fresh(e, t, e.persistentCacheTime) THEN "serve" ELSE "fetch"
    ELSE IF e = NoEntry THEN "fetch"
    ELSE IF co.forceRefresh THEN "refetch"
    ELSE IF Fresh(e, t, co.time) THEN "serve" ELSE "refetch"

\* an existing entry refreshed on every cache-enabled call
DecideNeverServe(e, co, t) ==
    IF ~co.enabled
    THEN IF Fresh(e, t, e.persistentCacheTime) THEN "serve" ELSE "fetch"
    ELSE IF e = NoEntry THEN "fetch"
    ELSE "refetch"

\* the cache-disabled branch never looking at the entry: always a remote fetch
DecideDisabledFetches(e, co, t) ==
    IF ~co.enabled THEN "fetch"
    ELSE IF e = NoEntry THEN "fetch"
    ELSE IF co.forceRefresh THEN "refetch"
    ELSE IF Truthy(e.persistentCacheTime) /\ ~co.bypassLockedTime
         THEN IF co.locked
              THEN IF Fresh(e, t, co.time) THEN "serve" ELSE "refetch"
              ELSE IF Fresh(e, t, e.persistentCacheTime) THEN "serve" ELSE "refetch"
         ELSE IF Fresh(e, t, co.time) THEN "serve" ELSE "refetch"

\* a call that locks a new cache time still judged by the stored one
DecideStoredLockOnly(e, co, t) ==
    IF ~co.enabled
    THEN IF Fresh(e, t, e.persistentCacheTime) THEN "serve" ELSE "fetch"
    ELSE IF e = NoEntry THEN "fetch"
    ELSE IF co.forceRefresh THEN "refetch"
    ELSE IF Truthy(e.persistentCacheTime) /\ ~co.bypassLockedTime
         THEN IF Fresh(e, t, e.persistentCacheTime) THEN "serve" ELSE "refetch"
         ELSE IF Fresh(e, t, co.time) THEN "serve" ELSE "refetch"

\* an entry whose doc is absent taken for a cache miss
DecideAbsentDocIsMiss(e, co, t) ==
    IF e.doc = Undefined THEN "fetch"
    ELSE IF ~co.enabled
    THEN IF Fresh(e, t, e.persistentCacheTime) THEN "serve" ELSE "fetch"
    ELSE IF co.forceRefresh THEN "refetch"
    ELSE IF Truthy(e.persistentCacheTime) /\ ~co.bypassLockedTime
         THEN IF co.locked
              THEN IF Fresh(e, t, co.time) THEN "serve" ELSE "refetch"
              ELSE IF Fresh(e, t, e.persistentCacheTime) THEN "serve" ELSE "refetch"
         ELSE IF Fresh(e, t, co.time) THEN "serve" ELSE "refetch"

\* what the get callback does with the entry e at time t:
\*   "serve"   resolve with e.doc
\*   "fetch"   requestDoc right away (cache disabled, or no entry)
\*   "refetch" del the entry, then requestDoc
Decide(e, co, t) ==
    IF ~co.enabled
    THEN IF Fresh(e, t, e.persistentCacheTime) THEN "serve" ELSE "fetch"
    ELSE IF e = NoEntry THEN "fetch"
    ELSE IF co.forceRefresh THEN "refetch"
    ELSE IF Truthy(e.persistentCacheTime) /\ ~co.bypassLockedTime
         THEN IF co.locked
              THEN IF Fresh(e, t, co.time) THEN "serve" ELSE "refetch"
              ELSE IF Fresh(e, t, e.persistentCacheTime) THEN "serve" ELSE "refetch"
         ELSE IF Fresh(e, t, co.time) THEN "serve" ELSE "refetch"

\* persistentCacheTime stored whether or not the call locks it
NewDocEntryAlwaysLocked(data, co, t) ==
    [doc |-> data, fetchedAt |-> t, persistentCacheTime |-> co.time]

\* the lock of the call never written to the new entry
NewDocEntryNeverLocked(data, co, t) ==
    [doc |-> data, fetchedAt |-> t, persistentCacheTime |-> Undefined]

\* newDocEntry: the entry written after a successful fetch at time t
NewDocEntry(data, co, t) ==
    [doc |-> data, fetchedAt |-> t,
     persistentCacheTime |-> IF co.locked THEN co.time ELSE Undefined]

(***************************************************************************)
(* State.                                                                  *)
(***************************************************************************)
Init ==
    /\ store = [p \in Paths |-> NoEntry]
    /\ remote \in [Paths -> {1}]
    /\ now = 0
    /\ pc = [c \in Calls |-> "idle"]
    /\ args = [c \in Calls |-> NoArgs]
    /\ cacheEntry = [c \in Calls |-> NoEntry]
    /\ retries = [c \in Calls |-> 0]
    /\ due = [c \in Calls |-> 0]
    /\ outcome = [c \in Calls |-> Pending]
    /\ stats = [c \in Calls |-> NoStats]
    /\ log = <<>>

Settled(c) == pc[c] \in {"resolved", "rejected"}
Active(c) == pc[c] \in {"open", "get", "del", "del-failing", "fetch", "delay"}
\* the continuation of a settled call's awaiting caller is a microtask of the
\* task that settled it: it runs before any later task (a store event, a timer)
NoneSettled == \A c \in Calls : ~Settled(c)
\* the then-callback of a remote answer delivered in the same task as the answer
\* that settled another call is queued ahead of that call's caller: it may run
\* while calls settled by their remote answer have not returned yet
OnlyAnswersSettled == \A c \in Calls : Settled(c) => stats[c].fetches >= 1

\* setTimeout runs on the runtime's own clock: against Date.now() the timer
\* may fire up to one millisecond early
TimerSlack == 1

\* getDocWrapper(db, path, options) is entered: createStore asks for the database
\* to be opened and get(path) waits for it
Invoke(c, path, co, ro) ==
    /\ pc[c] = "idle"
    /\ pc' = [pc EXCEPT ![c] = "open"]
    /\ args' = [args EXCEPT ![c] = [path |-> path, cacheOptions |-> co, retryOptions |-> ro]]
    /\ UNCHANGED <<store, remote, now, cacheEntry, retries, due, outcome, stats, log>>

\* getDocWrapper is entered where the store may not be opened: createStore throws
\* inside the async executor of the promise, whose rejection nobody handles.
\* No get is issued, resolve and reject are never called: the promise stays
\* pending for good
InvokeThrows(c, path, co, ro) ==
    /\ pc[c] = "idle"
    /\ pc' = [pc EXCEPT ![c] = "stuck"]
    /\ args' = [args EXCEPT ![c] = [path |-> path, cacheOptions |-> co, retryOptions |-> ro]]
    /\ stats' = [stats EXCEPT ![c].failedOp = "open"]
    /\ UNCHANGED <<store, remote, now, cacheEntry, retries, due, outcome, log>>

\* the database is open: the read transaction of the get is created.  Store
\* transactions run in the order of their creation, so the get reads what the
\* path holds now, whatever is written before its callback runs
OpenDone(c) ==
    /\ NoneSettled
    /\ pc[c] = "open"
    /\ pc' = [pc EXCEPT ![c] = "get"]
    /\ cacheEntry' = [cacheEntry EXCEPT ![c] = store[args[c].path]]
    /\ UNCHANGED <<store, remote, now, args, retries, due, outcome, stats, log>>

\* a cache hit that writes the entry back with fetchedAt moved to now
GetDoneTouches(c) ==
    /\ NoneSettled
    /\ pc[c] = "get"
    /\ LET e == cacheEntry[c]
           d == Decide(e, args[c].cacheOptions, now)
       IN  /\ pc' = [pc EXCEPT ![c] =
                  CASE d = "serve" -> "resolved"
                    [] d = "fetch" -> "fetch"
                    [] d = "refetch" -> "del"]
           /\ outcome' = [outcome EXCEPT ![c] = IF d = "serve" THEN Resolved(e.doc) ELSE @]
           /\ stats' = [stats EXCEPT ![c].served = (d = "serve"),
                                     ![c].fetches = IF d = "fetch" THEN 1 ELSE 0,
                                     ![c].resolvedAt = IF d = "serve" THEN now ELSE @]
           /\ store' = CASE d = "serve" /\ store[args[c].path] # NoEntry
                              -> [store EXCEPT ![args[c].path].fetchedAt = now]
                         [] d = "refetch" -> [store EXCEPT ![args[c].path] = NoEntry]
                         [] OTHER -> store
    /\ UNCHANGED <<remote, now, args, cacheEntry, retries, due, log>>

\* the old entry kept until the new one is written: no del is issued
GetDoneKeepsEntry(c) ==
    /\ NoneSettled
    /\ pc[c] = "get"
    /\ LET e == cacheEntry[c]
           d == Decide(e, args[c].cacheOptions, now)
       IN  /\ pc' = [pc EXCEPT ![c] =
                  CASE d = "serve" -> "resolved"
                    [] d = "fetch" -> "fetch"
                    [] d = "refetch" -> "del"]
           /\ outcome' = [outcome EXCEPT ![c] = IF d = "serve" THEN Resolved(e.doc) ELSE @]
           /\ stats' = [stats EXCEPT ![c].served = (d = "serve"),
                                     ![c].fetches = IF d = "fetch" THEN 1 ELSE 0,
                                     ![c].resolvedAt = IF d = "serve" THEN now ELSE @]
    /\ UNCHANGED <<store, remote, now, args, cacheEntry, retries, due, log>>

\* the get resolves with the entry it read: the callback runs up to its first
\* await (or to resolve).  On a refetch it issues del(path): the deletion is
\* ordered here, before every store operation issued later by any call
GetDone(c) ==
    /\ NoneSettled
    /\ pc[c] = "get"
    /\ LET e == cacheEntry[c]
           d == Decide(e, args[c].cacheOptions, now)
       IN  /\ pc' = [pc EXCEPT ![c] =
                  CASE d = "serve" -> "resolved"
                    [] d = "fetch" -> "fetch"
                    [] d = "refetch" -> "del"]
           /\ outcome' = [outcome EXCEPT ![c] = IF d = "serve" THEN Resolved(e.doc) ELSE @]
           /\ stats' = [stats EXCEPT ![c].served = (d = "serve"),
                                     ![c].fetches = IF d = "fetch" THEN 1 ELSE 0,
                                     ![c].resolvedAt = IF d = "serve" THEN now ELSE @]
           /\ store' = IF d = "refetch"
                       THEN [store EXCEPT ![args[c].path] = NoEntry]
                       ELSE store
    /\ UNCHANGED <<remote, now, args, cacheEntry, retries, due, log>>

\* the same callback on a refetch whose del(path) is going to reject: the
\* deletion is issued and leaves the entry where it is
GetDoneDelFails(c) ==
    /\ NoneSettled
    /\ pc[c] = "get"
    /\ Decide(cacheEntry[c], args[c].cacheOptions, now) = "refetch"
    /\ pc' = [pc EXCEPT ![c] = "del-failing"]
    /\ stats' = [stats EXCEPT ![c].served = FALSE, ![c].fetches = 0]
    /\ UNCHANGED <<store, remote, now, args, cacheEntry, retries, due, outcome, log>>

\* del(path) resolves: requestDoc issues the first getDoc
DelDone(c) ==
    /\ NoneSettled
    /\ pc[c] = "del"
    /\ pc' = [pc EXCEPT ![c] = "fetch"]
    /\ stats' = [stats EXCEPT ![c].dels = @ + 1, ![c].fetches = @ + 1]
    /\ UNCHANGED <<store, remote, now, args, cacheEntry, retries, due, outcome, log>>

\* the new doc merged into the entry the path holds: its fetchedAt is kept
FetchOkMergesEntry(c) ==
    /\ OnlyAnswersSettled
    /\ pc[c] = "fetch"
    /\ LET data == remote[args[c].path]
           co == args[c].cacheOptions
           old == store[args[c].path]
       IN  /\ store' = IF StoresResult(co)
                       THEN [store EXCEPT ![args[c].path] =
                                IF old = NoEntry THEN NewDocEntry(data, co, now)
                                ELSE [NewDocEntry(data, co, now) EXCEPT
                                          !.fetchedAt = old.fetchedAt]]
                       ELSE store
           /\ outcome' = [outcome EXCEPT ![c] = Resolved(data)]
           /\ stats' = [stats EXCEPT ![c].sets = IF StoresResult(co) THEN @ + 1 ELSE @,
                                     ![c].resolvedAt = now]
    /\ pc' = [pc EXCEPT ![c] = "resolved"]
    /\ UNCHANGED <<remote, now, args, cacheEntry, retries, due, log>>

\* the entry written only when the path has none: the first write is kept
FetchOkFirstWriteWins(c) ==
    /\ OnlyAnswersSettled
    /\ pc[c] = "fetch"
    /\ LET data == remote[args[c].path]
           co == args[c].cacheOptions
       IN  /\ store' = IF StoresResult(co) /\ store[args[c].path] = NoEntry
                       THEN [store EXCEPT ![args[c].path] = NewDocEntry(data, co, now)]
                       ELSE store
           /\ outcome' = [outcome EXCEPT ![c] = Resolved(data)]
           /\ stats' = [stats EXCEPT ![c].sets = IF StoresResult(co) THEN @ + 1 ELSE @,
                                     ![c].resolvedAt = now]
    /\ pc' = [pc EXCEPT ![c] = "resolved"]
    /\ UNCHANGED <<remote, now, args, cacheEntry, retries, due, log>>

\* getDoc resolves with a snapshot: the entry is written (cache enabled) and the
\* promise resolves with snapshot.data()
FetchOk(c) ==
    /\ OnlyAnswersSettled
    /\ pc[c] = "fetch"
    /\ LET data == remote[args[c].path]
           co == args[c].cacheOptions
       IN  /\ store' = IF StoresResult(co)
                       THEN [store EXCEPT ![args[c].path] = NewDocEntry(data, co, now)]
                       ELSE store
           /\ outcome' = [outcome EXCEPT ![c] = Resolved(data)]
           /\ stats' = [stats EXCEPT ![c].sets = IF StoresResult(co) THEN @ + 1 ELSE @,
                                     ![c].resolvedAt = now]
    /\ pc' = [pc EXCEPT ![c] = "resolved"]
    /\ UNCHANGED <<remote, now, args, cacheEntry, retries, due, log>>

\* one counter at module level, shared by every call
CounterShared(c) == FirstCall

\* let retries = 0 is a local of requestDoc: each call counts in its own variable
CounterOf(c) == c

\* request() called again right away, with no await timeout(retryDelay)
FetchFailNoDelay(c, code) ==
    /\ OnlyAnswersSettled
    /\ pc[c] = "fetch"
    /\ LET ro == args[c].retryOptions
           what == OnFetchError(ro, retries[CounterOf(c)], code)
       IN  /\ retries' = [retries EXCEPT ![CounterOf(c)] = RetriesAfterError(ro, @)]
           /\ pc' = [pc EXCEPT ![c] = IF what = "retry" THEN "fetch" ELSE "rejected"]
           /\ outcome' = [outcome EXCEPT ![c] =
                  CASE what = "retry" -> @
                    [] what = "non-retryable" -> NonRetryableError
                    [] what = "throw" -> RemoteError(code)]
           /\ stats' = [stats EXCEPT ![c].failures = @ + 1, ![c].lastCode = code,
                                     ![c].fetches = IF what = "retry" THEN @ + 1 ELSE @]
    /\ UNCHANGED <<store, remote, now, args, cacheEntry, due, log>>

\* getDoc rejects with an error carrying `code`: the catch block of request()
FetchFail(c, code) ==
    /\ OnlyAnswersSettled
    /\ pc[c] = "fetch"
    /\ LET ro == args[c].retryOptions
           what == OnFetchError(ro, retries[CounterOf(c)], code)
       IN  /\ retries' = [retries EXCEPT ![CounterOf(c)] = RetriesAfterError(ro, @)]
           /\ pc' = [pc EXCEPT ![c] = IF what = "retry" THEN "delay" ELSE "rejected"]
           /\ due' = [due EXCEPT ![c] = IF what = "retry" THEN now + RetryDelay(ro) ELSE @]
           /\ outcome' = [outcome EXCEPT ![c] =
                  CASE what = "retry" -> @
                    [] what = "non-retryable" -> NonRetryableError
                    [] what = "throw" -> RemoteError(code)]
           /\ stats' = [stats EXCEPT ![c].failures = @ + 1, ![c].lastCode = code]
    /\ UNCHANGED <<store, remote, now, args, cacheEntry, log>>

\* timeout(retryDelay) fires: request() is called again
DelayDone(c) ==
    /\ NoneSettled
    /\ pc[c] = "delay"
    /\ now >= due[c] - TimerSlack
    /\ pc' = [pc EXCEPT ![c] = "fetch"]
    /\ stats' = [stats EXCEPT ![c].delays = @ + 1, ![c].fetches = @ + 1]
    /\ UNCHANGED <<store, remote, now, args, cacheEntry, retries, due, outcome, log>>

\* get(path) rejects: the catch at the end of the chain rejects the call
GetFail(c) ==
    /\ NoneSettled
    /\ pc[c] = "get"
    /\ pc' = [pc EXCEPT ![c] = "rejected"]
    /\ outcome' = [outcome EXCEPT ![c] = StoreError("get")]
    /\ stats' = [stats EXCEPT ![c].failedOp = "get"]
    /\ UNCHANGED <<store, remote, now, args, cacheEntry, retries, due, log>>

\* del(path) rejects: the entry stays, the catch after it rejects the call
DelFail(c) ==
    /\ NoneSettled
    /\ pc[c] = "del-failing"
    /\ pc' = [pc EXCEPT ![c] = "rejected"]
    /\ outcome' = [outcome EXCEPT ![c] = StoreError("del")]
    /\ stats' = [stats EXCEPT ![c].dels = @ + 1, ![c].failedOp = "del"]
    /\ UNCHANGED <<store, remote, now, args, cacheEntry, retries, due, log>>

\* getDoc resolves with a snapshot and the set of the new entry rejects: the set
\* is not awaited and has no catch, so the promise resolves with snapshot.data()
\* all the same and the store keeps what it held
FetchOkSetFails(c) ==
    /\ OnlyAnswersSettled
    /\ pc[c] = "fetch"
    /\ StoresResult(args[c].cacheOptions)
    /\ outcome' = [outcome EXCEPT ![c] = Resolved(remote[args[c].path])]
    /\ stats' = [stats EXCEPT ![c].sets = @ + 1, ![c].failedOp = "set",
                              ![c].resolvedAt = now]
    /\ pc' = [pc EXCEPT ![c] = "resolved"]
    /\ UNCHANGED <<store, remote, now, args, cacheEntry, retries, due, log>>

\* the caller awaiting the promise runs on with the result: its continuation is a
\* microtask of the settling callback, so no timer or I/O event comes in between
Forget(c) ==
    /\ Settled(c)
    /\ pc' = [pc EXCEPT ![c] = "idle"]
    /\ args' = [args EXCEPT ![c] = NoArgs]
    /\ cacheEntry' = [cacheEntry EXCEPT ![c] = NoEntry]
    /\ retries' = [retries EXCEPT ![c] = 0]
    /\ due' = [due EXCEPT ![c] = 0]
    /\ outcome' = [outcome EXCEPT ![c] = Pending]
    /\ stats' = [stats EXCEPT ![c] = NoStats]
    /\ UNCHANGED <<store, remote, now>>

Return(c) == Forget(c) /\ UNCHANGED log

\* the same, by a caller that keeps what it saw of the call
ReturnLogged(c) ==
    /\ Forget(c)
    /\ log' = Append(log,
                 [cacheOptions |-> args[c].cacheOptions,
                  hadEntry |-> cacheEntry[c] # NoEntry,
                  outcome |-> outcome[c],
                  fetches |-> stats[c].fetches,
                  failures |-> stats[c].failures,
                  sets |-> stats[c].sets,
                  dels |-> stats[c].dels])

\* the same, by a caller that makes no further call
ReturnLast(c) ==
    /\ Settled(c)
    /\ pc' = [pc EXCEPT ![c] = "done"]
    /\ args' = [args EXCEPT ![c] = NoArgs]
    /\ cacheEntry' = [cacheEntry EXCEPT ![c] = NoEntry]
    /\ retries' = [retries EXCEPT ![c] = 0]
    /\ due' = [due EXCEPT ![c] = 0]
    /\ outcome' = [outcome EXCEPT ![c] = Pending]
    /\ stats' = [stats EXCEPT ![c] = NoStats]
    /\ UNCHANGED <<store, remote, now, log>>

\* a millisecond passes: Date.now() waits for nobody, a settled call's caller
\* that has not run on yet included
Tick ==
    /\ now < MaxTime
    /\ now' = now + 1
    /\ UNCHANGED <<store, remote, pc, args, cacheEntry, retries, due, outcome, stats, log>>

\* a millisecond passes while the timer of call c runs, however late it is
TimerRuns(c) ==
    /\ pc[c] = "delay"
    /\ now < due[c]
    /\ now >= MaxTime
    /\ now' = now + 1
    /\ UNCHANGED <<store, remote, pc, args, cacheEntry, retries, due, outcome, stats, log>>

\* the remote document changes (or is deleted, or created): the next answer
\* carries another doc, also when it is delivered together with an answer that
\* settled a call
ChangeUpstream ==
    /\ OnlyAnswersSettled
    /\ NoneSettled \/ \E c \in Calls : pc[c] = "fetch"
    /\ \E p \in Paths, d \in Docs :
          /\ d # remote[p]
          /\ remote' = [remote EXCEPT ![p] = d]
    /\ UNCHANGED <<store, now, pc, args, cacheEntry, retries, due, outcome, stats, log>>

(***************************************************************************)
(* Spec: one caller that awaits each call before it makes the next one;    *)
(* every combination of cache options, with the retry options below.       *)
(***************************************************************************)
SeqRetryOptions ==
    {NoRetryOptions,
     [enabled |-> TRUE, maxRetries |-> 2, retryDelay |-> Undefined,
      retryOnErrorCode |-> [defined |-> TRUE, codes |-> {"c1"}]]}

InvokeSequential ==
    /\ \A c \in Calls : pc[c] = "idle"
    /\ \E path \in Paths, co \in CacheOptions, ro \in SeqRetryOptions :
          Invoke(FirstCall, path, co, ro)

Next ==
    \/ InvokeSequential
    \/ OpenDone(FirstCall)
    \/ GetDone(FirstCall)
    \/ DelDone(FirstCall)
    \/ FetchOk(FirstCall)
    \/ \E code \in ErrorCodes : FetchFail(FirstCall, code)
    \/ DelayDone(FirstCall)
    \/ Return(FirstCall)
    \/ Tick
    \/ ChangeUpstream

Spec == Init /\ [][Next]_vars

(***************************************************************************)
(* SpecRetry: the same caller, with every combination of retry options and *)
(* the cache options below.                                                *)
(***************************************************************************)
RetryCacheOptions ==
    {NoCacheOptions, [NoCacheOptions EXCEPT !.enabled = TRUE]}

InvokeRetrying ==
    /\ \A c \in Calls : pc[c] = "idle"
    /\ \E path \in Paths, co \in RetryCacheOptions, ro \in RetryOptions :
          Invoke(FirstCall, path, co, ro)

NextRetry ==
    \/ InvokeRetrying
    \/ OpenDone(FirstCall)
    \/ GetDone(FirstCall)
    \/ DelDone(FirstCall)
    \/ FetchOk(FirstCall)
    \/ \E code \in ErrorCodes : FetchFail(FirstCall, code)
    \/ DelayDone(FirstCall)
    \/ Return(FirstCall)
    \/ Tick
    \/ ChangeUpstream

SpecRetry == Init /\ [][NextRetry]_vars

(***************************************************************************)
(* SpecAttempts: the same, with a cache option under which a call is       *)
(* served the entry an earlier call stored.                                *)
(***************************************************************************)
AttemptsCacheOptions ==
    RetryCacheOptions \cup {[NoCacheOptions EXCEPT !.enabled = TRUE, !.time = Infinity]}

InvokeCounted ==
    /\ \A c \in Calls : pc[c] = "idle"
    /\ \E path \in Paths, co \in AttemptsCacheOptions, ro \in RetryOptions :
          Invoke(FirstCall, path, co, ro)

NextAttempts ==
    \/ InvokeCounted
    \/ OpenDone(FirstCall)
    \/ GetDone(FirstCall)
    \/ DelDone(FirstCall)
    \/ FetchOk(FirstCall)
    \/ \E code \in ErrorCodes : FetchFail(FirstCall, code)
    \/ DelayDone(FirstCall)
    \/ Return(FirstCall)
    \/ Tick
    \/ ChangeUpstream

SpecAttempts == Init /\ [][NextAttempts]_vars

(***************************************************************************)
(* SpecStoreErr: the same caller, over a store whose get, del and set may  *)
(* reject (quota, a value that cannot be cloned, a closed database).       *)
(***************************************************************************)
StoreErrCacheOptions ==
    {NoCacheOptions} \cup
    {co \in CacheOptions :
        co.enabled /\ co.time \in {0, Infinity} /\ ~co.locked /\ ~co.bypassLockedTime}

InvokeOverFailingStore ==
    /\ \A c \in Calls : pc[c] = "idle"
    /\ \E path \in Paths, co \in StoreErrCacheOptions, ro \in SeqRetryOptions :
          Invoke(FirstCall, path, co, ro)

InvokeOverDeniedStore ==
    /\ \A c \in Calls : pc[c] = "idle"
    /\ \E path \in Paths, co \in StoreErrCacheOptions, ro \in SeqRetryOptions :
          InvokeThrows(FirstCall, path, co, ro)

NextStoreErr ==
    \/ InvokeOverFailingStore
    \/ InvokeOverDeniedStore
    \/ OpenDone(FirstCall)
    \/ GetDone(FirstCall)
    \/ GetDoneDelFails(FirstCall)
    \/ GetFail(FirstCall)
    \/ DelDone(FirstCall)
    \/ DelFail(FirstCall)
    \/ FetchOk(FirstCall)
    \/ FetchOkSetFails(FirstCall)
    \/ \E code \in ErrorCodes : FetchFail(FirstCall, code)
    \/ DelayDone(FirstCall)
    \/ Return(FirstCall)
    \/ Tick
    \/ ChangeUpstream

SpecStoreErr == Init /\ [][NextStoreErr]_vars

(***************************************************************************)
(* SpecTwice: the same caller makes MaxLogged cache-enabled calls in a row *)
(* and keeps what each returned.                                           *)
(***************************************************************************)
TwiceCacheOptions ==
    {co \in CacheOptions :
        /\ co.enabled /\ co.time \in {0, Infinity}
        /\ ~co.locked /\ ~co.bypassLockedTime /\ ~co.forceRefresh}

InvokeLogged ==
    /\ \A c \in Calls : pc[c] = "idle"
    /\ Len(log) < MaxLogged
    /\ \E path \in Paths, co \in TwiceCacheOptions, ro \in SeqRetryOptions :
          Invoke(FirstCall, path, co, ro)

NextTwice ==
    \/ InvokeLogged
    \/ OpenDone(FirstCall)
    \/ GetDone(FirstCall)
    \/ DelDone(FirstCall)
    \/ FetchOk(FirstCall)
    \/ \E code \in ErrorCodes : FetchFail(FirstCall, code)
    \/ DelayDone(FirstCall)
    \/ ReturnLogged(FirstCall)
    \/ Tick
    \/ ChangeUpstream

SpecTwice == Init /\ [][NextTwice]_vars

(***************************************************************************)
(* SpecConc: callers that do not wait for each other: each of them makes   *)
(* one call on the same path, over a store that is empty or holds the      *)
(* entry of an earlier session, and the callbacks of the calls interleave  *)
(* in any order.  Store operations take effect in the order in which they  *)
(* are issued.  Remote answers may arrive together: the calls they settle  *)
(* are then settled at once, before either caller runs on.                 *)
(***************************************************************************)
ConcCacheOptions ==
    {NoCacheOptions,
     [NoCacheOptions EXCEPT !.enabled = TRUE],
     [NoCacheOptions EXCEPT !.enabled = TRUE, !.time = Infinity],
     [NoCacheOptions EXCEPT !.enabled = TRUE, !.time = 1, !.locked = TRUE]}

ConcRetryOptions ==
    {NoRetryOptions,
     [enabled |-> TRUE, maxRetries |-> 2, retryDelay |-> Undefined,
      retryOnErrorCode |-> NoErrorCodeList]}

\* no call of ConcRetryOptions lists error codes: one code stands for all
ConcErrorCodes == {"c1"}

\* the store as an earlier session of the page may have left it
InitConc ==
    /\ store \in [Paths -> {NoEntry, NewDocEntry(1, NoCacheOptions, 0)}]
    /\ remote \in [Paths -> {1}]
    /\ now = 0
    /\ pc = [c \in Calls |-> "idle"]
    /\ args = [c \in Calls |-> NoArgs]
    /\ cacheEntry = [c \in Calls |-> NoEntry]
    /\ retries = [c \in Calls |-> 0]
    /\ due = [c \in Calls |-> 0]
    /\ outcome = [c \in Calls |-> Pending]
    /\ stats = [c \in Calls |-> NoStats]
    /\ log = <<>>

InvokeConcurrent ==
    /\ NoneSettled
    /\ \E c \in Calls :
          /\ \A d \in Calls : d < c => pc[d] # "idle"
          /\ \E path \in Paths, co \in ConcCacheOptions, ro \in ConcRetryOptions :
                Invoke(c, path, co, ro)

NextConc ==
    \/ InvokeConcurrent
    \/ \E c \in Calls : OpenDone(c)
    \/ \E c \in Calls : GetDone(c)
    \/ \E c \in Calls : DelDone(c)
    \/ \E c \in Calls : FetchOk(c)
    \/ \E c \in Calls, code \in ConcErrorCodes : FetchFail(c, code)
    \/ \E c \in Calls : DelayDone(c)
    \/ \E c \in Calls : ReturnLast(c)
    \/ Tick
    \/ ChangeUpstream

SpecConc == InitConc /\ [][NextConc]_vars

(***************************************************************************)
(* SpecFair: one caller, every combination of retry options with the cache *)
(* options below (each branch of the get callback is taken), a store whose *)
(* operations may fail, and an event loop that keeps going:                *)
(* every store operation and every remote attempt that was issued          *)
(* completes, time passes, and a timer that is due fires.  Calls are made  *)
(* while the clock is within MaxTime; a timer started late still runs out. *)
(***************************************************************************)
FairCacheOptions ==
    StoreErrCacheOptions \cup
    {[NoCacheOptions EXCEPT !.enabled = TRUE, !.time = Infinity, !.locked = TRUE]}

InvokeFair ==
    /\ \A c \in Calls : pc[c] = "idle"
    /\ now <= MaxTime
    /\ \E path \in Paths, co \in FairCacheOptions, ro \in RetryOptions :
          Invoke(FirstCall, path, co, ro)

InvokeFairDenied ==
    /\ \A c \in Calls : pc[c] = "idle"
    /\ now <= MaxTime
    /\ \E path \in Paths, co \in FairCacheOptions, ro \in RetryOptions :
          InvokeThrows(FirstCall, path, co, ro)

NextFair ==
    \/ InvokeFair
    \/ InvokeFairDenied
    \/ OpenDone(FirstCall)
    \/ GetDone(FirstCall)
    \/ GetDoneDelFails(FirstCall)
    \/ GetFail(FirstCall)
    \/ DelDone(FirstCall)
    \/ DelFail(FirstCall)
    \/ FetchOk(FirstCall)
    \/ FetchOkSetFails(FirstCall)
    \/ \E code \in ErrorCodes : FetchFail(FirstCall, code)
    \/ DelayDone(FirstCall)
    \/ Return(FirstCall)
    \/ Tick
    \/ TimerRuns(FirstCall)

\* the open, get, del and getDoc complete; time passes; the timer fires once it is due
Fairness ==
    /\ WF_vars(OpenDone(FirstCall))
    /\ WF_vars(GetDone(FirstCall) \/ GetDoneDelFails(FirstCall) \/ GetFail(FirstCall))
    /\ WF_vars(DelDone(FirstCall) \/ DelFail(FirstCall))
    /\ WF_vars(FetchOk(FirstCall) \/ FetchOkSetFails(FirstCall)
                  \/ \E code \in ErrorCodes : FetchFail(FirstCall, code))
    /\ WF_vars(Tick \/ TimerRuns(FirstCall))
    /\ WF_vars(DelayDone(FirstCall))

SpecFair == Init /\ [][NextFair]_vars /\ Fairness

(***************************************************************************)
(* Properties of one call.                                                 *)
(***************************************************************************)
CoOf(c) == args[c].cacheOptions
RoOf(c) == args[c].retryOptions
PathOf(c) == args[c].path
\* the get callback of call c has run
PastGet(c) == pc[c] \notin {"idle", "open", "stuck", "get", "done"}
\* the get of call c found an entry
HasEntry(c) == cacheEntry[c] # NoEntry
\* the clock against which the entry call c found is judged: for a call that
\* served it, the Date.now() its get callback read; for a call that went on to
\* fetch, the clock as it is (an entry stale when the callback ran stays stale)
DecidedAt(c) == IF stats[c].served THEN stats[c].resolvedAt ELSE now
\* the entry call c found is fresh against the cache time locked in it
LockedFresh(c) == Fresh(cacheEntry[c], DecidedAt(c), cacheEntry[c].persistentCacheTime)
\* the entry call c found is fresh against the call's own cacheTime.time
OneTimeFresh(c) == Fresh(cacheEntry[c], DecidedAt(c), CoOf(c).time)
\* call c resolved with what it fetched, and the store holds it as fetched at
\* the time the answer was handled
FreshlyStored(c) ==
    /\ outcome[c] = Resolved(remote[PathOf(c)])
    /\ store[PathOf(c)].doc = outcome[c].doc
    /\ store[PathOf(c)].fetchedAt = stats[c].resolvedAt
    /\ stats[c].resolvedAt <= now

\* C1: a call whose cacheOptions.enabled is unset or false issues no set and no
\* del, and leaves the entry of its path as its get found it, whether it serves
\* the cached doc, fetches or rejects.
C1_DisabledLeavesStore ==
    \A c \in Calls :
        (PastGet(c) /\ ~CoOf(c).enabled) =>
            /\ stats[c].sets = 0
            /\ stats[c].dels = 0
            /\ store[PathOf(c)] = cacheEntry[c]

\* a cache-disabled call fetched a document that differs from the entry it found
C1_Witness ==
    \E c \in Calls :
        /\ pc[c] = "resolved" /\ ~CoOf(c).enabled /\ ~stats[c].served
        /\ HasEntry(c) /\ outcome[c].doc # cacheEntry[c].doc

\* C2: a cache-enabled call that found no entry and resolved returns the fetched
\* payload and leaves an entry with that doc, fetchedAt the time of the fetch, and
\* persistentCacheTime = cacheTime.time exactly when cacheTime.locked was set.
C2_FirstFetchStored ==
    \A c \in Calls :
        (pc[c] = "resolved" /\ CoOf(c).enabled /\ ~HasEntry(c)) =>
            /\ FreshlyStored(c)
            /\ CoOf(c).locked => store[PathOf(c)].persistentCacheTime = CoOf(c).time
            /\ ~CoOf(c).locked => store[PathOf(c)].persistentCacheTime = Undefined

\* a first cache-enabled call locked a cache time of 1 at a time after 0
C2_Witness ==
    \E c \in Calls :
        /\ pc[c] = "resolved" /\ CoOf(c).enabled /\ ~HasEntry(c)
        /\ CoOf(c).locked /\ CoOf(c).time = 1 /\ now > 0
        /\ store[PathOf(c)].persistentCacheTime = 1

\* what C3 says of a call c with forceRefresh: it never serves the cached doc, it
\* has fetched by the time it settles, and when it resolves the store holds the
\* freshly fetched doc
ForcedRefresh(c) ==
    /\ ~stats[c].served
    /\ Settled(c) => stats[c].fetches >= 1
    /\ pc[c] = "resolved" => FreshlyStored(c)

\* C3 as stated: every call with forceRefresh = true refetches and overwrites.
C3_AnyForceRefresh ==
    \A c \in Calls : (PastGet(c) /\ CoOf(c).forceRefresh) => ForcedRefresh(c)

\* C3, amended: every cache-enabled call with forceRefresh = true refetches and
\* overwrites, whatever lock or one-time cache time the entry is fresh under.
C3_EnabledForceRefresh ==
    \A c \in Calls :
        (PastGet(c) /\ CoOf(c).enabled /\ CoOf(c).forceRefresh) => ForcedRefresh(c)

\* a forced call replaced an entry locked for ever, with a one-time time of +infinity
C3_Witness ==
    \E c \in Calls :
        /\ pc[c] = "resolved" /\ CoOf(c).enabled /\ CoOf(c).forceRefresh
        /\ cacheEntry[c].persistentCacheTime = Infinity /\ CoOf(c).time = Infinity
        /\ outcome[c].doc # cacheEntry[c].doc

\* what C4 says of a cache-enabled call c without cacheTime.locked on an entry
\* fresh against its locked cache time: without bypassLockedTime the cached doc is
\* served with no remote fetch; with it the call serves exactly when the entry is
\* fresh against the call's own cacheTime.time, and refetches otherwise
LockPrecedence(c) ==
    /\ ~CoOf(c).bypassLockedTime =>
          /\ stats[c].served
          /\ stats[c].fetches = 0
          /\ outcome[c] = Resolved(cacheEntry[c].doc)
    /\ CoOf(c).bypassLockedTime =>
          /\ stats[c].served <=> OneTimeFresh(c)
          /\ ~stats[c].served => (pc[c] = "del" \/ stats[c].dels = 1)

\* C4 as stated: for every cache-enabled call without cacheTime.locked.
C4_AnyLockPrecedence ==
    \A c \in Calls :
        (PastGet(c) /\ CoOf(c).enabled /\ ~CoOf(c).locked /\ LockedFresh(c))
            => LockPrecedence(c)

\* C4, amended: for every such call that does not set forceRefresh.
C4_LockPrecedence ==
    \A c \in Calls :
        (PastGet(c) /\ CoOf(c).enabled /\ ~CoOf(c).locked /\ ~CoOf(c).forceRefresh
            /\ LockedFresh(c))
            => LockPrecedence(c)

\* a call with a one-time cache time of 0 was served an entry locked for 1
C4_Witness ==
    \E c \in Calls :
        /\ pc[c] = "resolved" /\ stats[c].served
        /\ CoOf(c).enabled /\ ~CoOf(c).locked /\ ~CoOf(c).bypassLockedTime
        /\ ~CoOf(c).forceRefresh /\ CoOf(c).time = 0
        /\ cacheEntry[c].persistentCacheTime = 1

\* C5: after a call with bypassLockedTime and without cacheTime.locked on an entry
\* that carries a locked cache time, the entry of the path still carries that
\* same persistentCacheTime.
C5_BypassKeepsLock ==
    \A c \in Calls :
        (Settled(c) /\ CoOf(c).bypassLockedTime /\ ~CoOf(c).locked
            /\ cacheEntry[c].persistentCacheTime # Undefined)
            => store[PathOf(c)].persistentCacheTime = cacheEntry[c].persistentCacheTime

\* C6: of two cache-enabled calls in a row with cacheTime.time = +infinity and no
\* forceRefresh, the first finding no entry and resolving, the second returns the
\* same payload with no remote fetch, no set and no del, whatever the remote
\* document has become; the first call's only successful fetch is the one fetch
\* (and its only attempt when none failed).
C6_TwiceInfinity ==
    \A i \in 1..(Len(log) - 1) :
        LET first == log[i]
            second == log[i + 1]
        IN  (/\ first.cacheOptions.enabled /\ second.cacheOptions.enabled
             /\ first.cacheOptions.time = Infinity /\ second.cacheOptions.time = Infinity
             /\ ~first.cacheOptions.forceRefresh /\ ~second.cacheOptions.forceRefresh
             /\ ~first.hadEntry
             /\ first.outcome.kind = "doc") =>
                /\ second.outcome = first.outcome
                /\ second.fetches = 0
                /\ second.sets = 0 /\ second.dels = 0
                /\ first.fetches - first.failures = 1
                /\ first.failures = 0 => first.fetches + second.fetches = 1

\* two such calls returned the same payload although the remote document is
\* another one by now, with one remote fetch in all
C6_Witness ==
    /\ Len(log) = 2
    /\ log[1].cacheOptions.time = Infinity /\ log[2].cacheOptions.time = Infinity
    /\ ~log[1].hadEntry /\ log[2].hadEntry
    /\ log[1].outcome.kind = "doc" /\ log[2].outcome = log[1].outcome
    /\ log[1].fetches + log[2].fetches = 1
    /\ \E p \in Paths : remote[p] # log[2].outcome.doc

\* C7: a cache-enabled call on an entry without a lock, or with bypassLockedTime,
\* whose cacheTime.time is 0 or absent never serves the entry, whatever time has
\* passed: it deletes and refetches, and when it resolves it returns the remote
\* document and the store holds it.
C7_ZeroOrAbsentIsStale ==
    \A c \in Calls :
        (/\ PastGet(c) /\ CoOf(c).enabled /\ HasEntry(c)
         /\ (cacheEntry[c].persistentCacheTime = Undefined \/ CoOf(c).bypassLockedTime)
         /\ CoOf(c).time \in {0, Undefined}) =>
            /\ ~stats[c].served
            /\ pc[c] = "del" \/ stats[c].dels = 1
            /\ Settled(c) => stats[c].fetches >= 1
            /\ pc[c] = "resolved" => FreshlyStored(c)

\* a call with cacheTime.time = 0 replaced an unlocked entry fetched at this very
\* millisecond by a different remote document
C7_Witness ==
    \E c \in Calls :
        /\ pc[c] = "resolved" /\ CoOf(c).enabled /\ ~CoOf(c).forceRefresh
        /\ HasEntry(c) /\ cacheEntry[c].persistentCacheTime = Undefined
        /\ CoOf(c).time = 0 /\ cacheEntry[c].fetchedAt = now
        /\ outcome[c].doc # cacheEntry[c].doc
        /\ store[PathOf(c)].doc = outcome[c].doc

(***************************************************************************)
(* Properties of the retry policy.                                         *)
(***************************************************************************)
\* the last failure of call c had a code the allow-list lets through
LastCodeListed(c) == stats[c].lastCode \in RoOf(c).retryOnErrorCode.codes
LastCodeRetryable(c) == ~RoOf(c).retryOnErrorCode.defined \/ LastCodeListed(c)
\* call c rejected with the error of its last failed attempt
RejectedWithRemoteError(c) ==
    pc[c] = "rejected" /\ outcome[c] = RemoteError(stats[c].lastCode)
\* the last failure of call c is being retried, or was
Retried(c) ==
    /\ pc[c] \in {"delay", "fetch", "resolved"}
    /\ pc[c] = "delay" => (stats[c].delays = stats[c].failures - 1
                             /\ stats[c].fetches = stats[c].failures)
    /\ pc[c] # "delay" => (stats[c].delays = stats[c].failures
                             /\ stats[c].fetches = stats[c].failures + 1)

\* C8 as stated, for maxRetries = n: with fewer than n failures so far the call
\* is not rejected, it resolves with the remote payload, and it does not resolve
\* after n failures (the call given n = N - 1 rejects where the call given N
\* succeeds) but rejects with the remote error of the n-th.
C8_AnyRetryBudget ==
    \A c \in Calls :
        (PastGet(c) /\ RoOf(c).enabled /\ RoOf(c).maxRetries # Undefined) =>
            /\ stats[c].failures < RoOf(c).maxRetries => pc[c] # "rejected"
            /\ pc[c] = "resolved" =>
                  (outcome[c] = Resolved(remote[PathOf(c)])
                   /\ stats[c].failures < RoOf(c).maxRetries)
            /\ (RoOf(c).maxRetries >= 1 /\ stats[c].failures >= RoOf(c).maxRetries)
                  => RejectedWithRemoteError(c)

\* C8, amended: the same for maxRetries = n >= 1 and failures whose codes the
\* allow-list, if there is one, lets through.
C8_RetryBudget ==
    \A c \in Calls :
        (PastGet(c) /\ RoOf(c).enabled /\ RoOf(c).maxRetries # Undefined
            /\ RoOf(c).maxRetries >= 1) =>
            /\ (stats[c].failures < RoOf(c).maxRetries
                    /\ (stats[c].failures > 0 => LastCodeRetryable(c)))
                  => pc[c] # "rejected"
            /\ pc[c] = "resolved" =>
                  (outcome[c] = Resolved(remote[PathOf(c)])
                   /\ stats[c].failures < RoOf(c).maxRetries)
            /\ stats[c].failures >= RoOf(c).maxRetries => RejectedWithRemoteError(c)
            /\ stats[c].fetches <= RoOf(c).maxRetries

\* a call given maxRetries = 3 resolved on its third attempt
C8_Witness ==
    \E c \in Calls :
        /\ pc[c] = "resolved" /\ RoOf(c).enabled /\ RoOf(c).maxRetries = 3
        /\ stats[c].failures = 2 /\ stats[c].fetches = 3

\* what C9 says of a failure whose code is not in the allow-list: the call is
\* rejected with the non-retryable error, with no attempt and no delay after it
RejectedAsNonRetryable(c) ==
    /\ pc[c] = "rejected"
    /\ outcome[c] = NonRetryableError
    /\ stats[c].fetches = stats[c].failures
    /\ stats[c].delays = stats[c].failures - 1

\* C9 as stated: every failure with a code outside the allow-list rejects the
\* call with the non-retryable error; a failure with a listed code is retried
\* while budget remains.
C9_AnyExcludedCode ==
    \A c \in Calls :
        (RoOf(c).enabled /\ RoOf(c).retryOnErrorCode.defined /\ stats[c].failures > 0) =>
            /\ ~LastCodeListed(c) => RejectedAsNonRetryable(c)
            /\ (LastCodeListed(c) /\ stats[c].failures < MaxRetries(RoOf(c)))
                  => Retried(c)

\* C9, amended: a failure with a code outside the allow-list, on an attempt that
\* is not the last one the budget allows, rejects the call with the non-retryable
\* error; a failure with a listed code is retried while budget remains.
C9_ExcludedCode ==
    \A c \in Calls :
        (RoOf(c).enabled /\ RoOf(c).retryOnErrorCode.defined /\ stats[c].failures > 0
            /\ stats[c].failures < MaxRetries(RoOf(c))) =>
            /\ ~LastCodeListed(c) => RejectedAsNonRetryable(c)
            /\ LastCodeListed(c) => Retried(c)

\* a call with the default budget of 3 retried a listed code, then was rejected as
\* non-retryable on its second failure
C9_Witness ==
    \E c \in Calls :
        /\ pc[c] = "rejected" /\ outcome[c] = NonRetryableError
        /\ RoOf(c).enabled /\ RoOf(c).maxRetries = Undefined
        /\ stats[c].failures = 2 /\ stats[c].lastCode = "c2"
        /\ RoOf(c).retryOnErrorCode.codes = {"c1"}

\* C10: with retryOptions.enabled absent or false the first failure of the remote
\* fetch rejects the call with that error, after one attempt and no delay,
\* whatever maxRetries, retryDelay and retryOnErrorCode are.
C10_NoRetryUnlessEnabled ==
    \A c \in Calls :
        (~RoOf(c).enabled /\ stats[c].failures > 0) =>
            /\ RejectedWithRemoteError(c)
            /\ stats[c].fetches = 1 /\ stats[c].failures = 1
            /\ stats[c].delays = 0

\* a call with maxRetries = 3, a delay and an allow-list, but retrying not
\* enabled, was rejected with the remote error
C10_Witness ==
    \E c \in Calls :
        /\ pc[c] = "rejected" /\ ~RoOf(c).enabled
        /\ RoOf(c).maxRetries = 3 /\ RoOf(c).retryDelay = 1
        /\ RoOf(c).retryOnErrorCode.defined /\ ~LastCodeListed(c)
        /\ outcome[c] = RemoteError(stats[c].lastCode)

\* C11: no error is swallowed: a call one of whose own store operations (get,
\* del, or the set of the new entry) failed is rejected with that error and
\* never resolves; a call rejected otherwise carries the error of its last
\* remote attempt, as it was thrown or wrapped as non-retryable.
C11_NoErrorSwallowed ==
    \A c \in Calls :
        /\ stats[c].failedOp # "none" =>
              (pc[c] = "rejected" /\ outcome[c] = StoreError(stats[c].failedOp))
        /\ pc[c] = "resolved" => stats[c].failedOp = "none"
        /\ (pc[c] = "rejected" /\ stats[c].failedOp = "none") =>
              (stats[c].failures > 0
               /\ outcome[c] \in {RemoteError(stats[c].lastCode), NonRetryableError})

\* C12: a cache-disabled call serves the entry it found exactly when that entry
\* is fresh against the cache time locked in it, returning the cached doc with no
\* remote fetch; in every other case (no entry, no lock, lock stale) it fetches,
\* and when the fetch succeeds it returns the fetched doc.
C12_DisabledServesLockedFresh ==
    \A c \in Calls :
        (PastGet(c) /\ ~CoOf(c).enabled) =>
            /\ stats[c].served <=> LockedFresh(c)
            /\ stats[c].served =>
                  /\ outcome[c] = Resolved(cacheEntry[c].doc)
                  /\ stats[c].fetches = 0
            /\ ~stats[c].served =>
                  /\ stats[c].fetches >= 1
                  /\ pc[c] = "resolved" => outcome[c] = Resolved(remote[PathOf(c)])

\* a cache-disabled call was served an entry locked for ever while the remote
\* document had changed
C12_Witness ==
    \E c \in Calls :
        /\ pc[c] = "resolved" /\ ~CoOf(c).enabled /\ stats[c].served
        /\ cacheEntry[c].persistentCacheTime = Infinity
        /\ stats[c].fetches = 0
        /\ remote[PathOf(c)] # cacheEntry[c].doc

\* what C13 says of a call c that locks a new cache time on an entry that carries
\* a locked one: it serves exactly when the entry is fresh against the call's own
\* cacheTime.time; served, the store keeps the entry as it was found; refetched,
\* the new entry carries the call's cacheTime.time as its lock
LockOverride(c) ==
    /\ stats[c].served <=> OneTimeFresh(c)
    /\ stats[c].served =>
          /\ outcome[c] = Resolved(cacheEntry[c].doc)
          /\ store[PathOf(c)] = cacheEntry[c]
          /\ stats[c].sets = 0 /\ stats[c].dels = 0 /\ stats[c].fetches = 0
    /\ ~stats[c].served => (pc[c] = "del" \/ stats[c].dels = 1)
    /\ (pc[c] = "resolved" /\ ~stats[c].served) =>
          /\ FreshlyStored(c)
          /\ store[PathOf(c)].persistentCacheTime = CoOf(c).time

\* C13 as stated: for every cache-enabled call with cacheTime.locked and without
\* bypassLockedTime, on an entry that carries a locked cache time.
C13_AnyLockOverride ==
    \A c \in Calls :
        (PastGet(c) /\ CoOf(c).enabled /\ CoOf(c).locked /\ ~CoOf(c).bypassLockedTime
            /\ cacheEntry[c].persistentCacheTime # Undefined)
            => LockOverride(c)

\* C13, amended: for every such call that does not set forceRefresh.
C13_LockOverride ==
    \A c \in Calls :
        (PastGet(c) /\ CoOf(c).enabled /\ CoOf(c).locked /\ ~CoOf(c).bypassLockedTime
            /\ ~CoOf(c).forceRefresh /\ cacheEntry[c].persistentCacheTime # Undefined)
            => LockOverride(c)

\* a call locking +infinity was served an entry that is stale against the cache
\* time of 1 locked in it
C13_Witness ==
    \E c \in Calls :
        /\ pc[c] = "resolved" /\ stats[c].served
        /\ CoOf(c).enabled /\ CoOf(c).locked /\ ~CoOf(c).bypassLockedTime
        /\ ~CoOf(c).forceRefresh /\ CoOf(c).time = Infinity
        /\ cacheEntry[c].persistentCacheTime = 1 /\ ~LockedFresh(c)
        /\ store[PathOf(c)].persistentCacheTime = 1

\* C14: on an entry that carries a locked cache time, whatever its value, a
\* cache-enabled call with neither bypassLockedTime nor cacheTime.locked nor
\* forceRefresh serves exactly when the entry is fresh against that stored
\* persistentCacheTime, never against its own cacheTime.time.
C14_StoredLockDecides ==
    \A c \in Calls :
        (PastGet(c) /\ CoOf(c).enabled /\ ~CoOf(c).locked /\ ~CoOf(c).bypassLockedTime
            /\ ~CoOf(c).forceRefresh /\ cacheEntry[c].persistentCacheTime # Undefined)
            => (stats[c].served <=> LockedFresh(c))

\* C15: a cache-enabled call that refetched over an entry it found (stale, or
\* forceRefresh) and resolved deleted the entry, fetched, and wrote one new entry
\* with the fetched doc, fetchedAt the time of the fetch, and persistentCacheTime
\* = its cacheTime.time exactly when it set cacheTime.locked; otherwise the new
\* entry has no lock, whatever lock the old one carried.
C15_RefetchedEntry ==
    \A c \in Calls :
        (pc[c] = "resolved" /\ CoOf(c).enabled /\ HasEntry(c) /\ ~stats[c].served) =>
            /\ FreshlyStored(c)
            /\ stats[c].dels = 1 /\ stats[c].sets = 1
            /\ store[PathOf(c)].persistentCacheTime =
                  IF CoOf(c).locked THEN CoOf(c).time ELSE Undefined

\* a call without cacheTime.locked refetched over an entry locked for ever (by
\* forceRefresh or bypassLockedTime) and left an entry with no lock
C15_Witness ==
    \E c \in Calls :
        /\ pc[c] = "resolved" /\ CoOf(c).enabled /\ ~stats[c].served
        /\ ~CoOf(c).locked /\ CoOf(c).time = 1
        /\ cacheEntry[c].persistentCacheTime = Infinity
        /\ store[PathOf(c)].persistentCacheTime = Undefined
        /\ store[PathOf(c)].fetchedAt = now /\ now > 0

\* the number of attempts call c is allowed: maxRetries, or 3 when it is absent
\* or 0; one attempt when retrying is not enabled
Budget(c) ==
    IF ~RoOf(c).enabled THEN 1
    ELSE IF RoOf(c).maxRetries \in {Undefined, 0} THEN DefaultMaxRetries
    ELSE RoOf(c).maxRetries

\* C16: with retrying enabled, a failure of the last attempt the budget allows
\* rejects the call with the error of that attempt and not with the
\* non-retryable error, with or without an allow-list and whether or not the
\* code is in it; no attempt follows it.
C16_ExhaustedRejectsWithError ==
    \A c \in Calls :
        (RoOf(c).enabled /\ stats[c].failures >= Budget(c)) =>
            /\ RejectedWithRemoteError(c)
            /\ outcome[c] # NonRetryableError
            /\ stats[c].failures = Budget(c) /\ stats[c].fetches = Budget(c)

\* a call with maxRetries = 2 and the allow-list {c1} failed with c1, retried, and
\* was rejected with the error c2 of its second attempt
C16_Witness ==
    \E c \in Calls :
        /\ pc[c] = "rejected" /\ outcome[c] = RemoteError("c2")
        /\ RoOf(c).enabled /\ RoOf(c).maxRetries = 2
        /\ RoOf(c).retryOnErrorCode.defined /\ RoOf(c).retryOnErrorCode.codes = {"c1"}
        /\ stats[c].failures = 2

\* what C17 says of call c with a budget of n attempts: at most n remote fetches,
\* exactly n when it was rejected on a retryable failure (every attempt failed),
\* exactly 1 when it settled without retrying enabled and without being served,
\* and none when it was served from the cache
AttemptBound(c, n) ==
    /\ stats[c].fetches <= n
    /\ (pc[c] = "rejected" /\ RoOf(c).enabled /\ LastCodeRetryable(c))
          => stats[c].fetches = n
    /\ (Settled(c) /\ ~RoOf(c).enabled /\ ~stats[c].served) => stats[c].fetches = 1
    /\ stats[c].served => stats[c].fetches = 0

\* C17 as stated: the budget is maxRetries, 3 when maxRetries is absent.
C17_AnyAttemptBound ==
    \A c \in Calls :
        AttemptBound(c, IF ~RoOf(c).enabled THEN 1
                        ELSE IF RoOf(c).maxRetries = Undefined THEN DefaultMaxRetries
                        ELSE RoOf(c).maxRetries)

\* C17, amended: the budget is maxRetries, 3 when maxRetries is absent or 0.
C17_AttemptBound ==
    \A c \in Calls : AttemptBound(c, Budget(c))

\* a call with maxRetries = 0 was rejected after three attempts, each failing with
\* a code the allow-list lets through
C17_Witness ==
    \E c \in Calls :
        /\ pc[c] = "rejected" /\ RoOf(c).enabled /\ RoOf(c).maxRetries = 0
        /\ RoOf(c).retryOnErrorCode.defined /\ LastCodeListed(c)
        /\ stats[c].fetches = 3 /\ stats[c].failures = 3

\* C18: the delay is waited once before each retry, after the failed attempt and
\* before the next one, and the retry is not issued before the timer of
\* retryDelay can have fired; none before the first attempt and none before a
\* rejection: at every moment the number of delays waited is the number of
\* attempts made minus one.
C18_DelayBetweenAttempts ==
    \A c \in Calls :
        /\ stats[c].fetches = 0 => stats[c].delays = 0
        /\ stats[c].fetches >= 1 => stats[c].delays = stats[c].fetches - 1
        /\ pc[c] = "delay" => stats[c].fetches = stats[c].failures
        /\ pc[c] = "rejected" => stats[c].fetches = stats[c].failures
        /\ (pc[c] = "fetch" /\ stats[c].delays > 0) =>
              /\ stats[c].fetches = stats[c].failures + 1
              /\ now >= due[c] - TimerSlack

\* a call with retryDelay = 2 resolved on its third attempt, after two delays
C18_Witness ==
    \E c \in Calls :
        /\ pc[c] = "resolved" /\ RoOf(c).enabled /\ RoOf(c).retryDelay = 2
        /\ stats[c].fetches = 3 /\ stats[c].delays = 2 /\ now = 2

\* C19: the retry counter is per call: however the callbacks of concurrent calls
\* interleave, the counter of a call is the number of its own failures (held at
\* its own budget minus one), a call makes no more attempts than its own budget,
\* and it is rejected on a retryable failure only when its own attempts have
\* used that budget up.
C19_CounterPerCall ==
    \A c \in Calls :
        /\ retries[c] =
              IF ~RoOf(c).enabled THEN 0
              ELSE IF stats[c].failures < Budget(c) - 1 THEN stats[c].failures
              ELSE Budget(c) - 1
        /\ stats[c].fetches <= Budget(c)
        /\ (pc[c] = "rejected" /\ LastCodeRetryable(c)) => stats[c].failures = Budget(c)
        /\ (stats[c].failures > 0 /\ stats[c].failures < Budget(c) /\ LastCodeRetryable(c))
              => Retried(c)

\* two calls in flight at once, each with maxRetries = 2: one was rejected after
\* two failures of its own while the other, one failure behind, is still retrying
C19_Witness ==
    \E c, d \in Calls :
        /\ c # d
        /\ RoOf(c).enabled /\ RoOf(d).enabled
        /\ pc[c] = "rejected" /\ stats[c].failures = 2
        /\ pc[d] \in {"delay", "fetch"} /\ stats[d].failures = 1 /\ retries[d] = 1

\* call c has resolved with the doc it fetched and wrote
ResolvedWriter(c) ==
    pc[c] = "resolved" /\ CoOf(c).enabled /\ ~stats[c].served

\* C20: calls on the same path are not coordinated: the set of every
\* cache-enabled call whose fetch succeeds replaces the entry of the path,
\* whatever another call that overlapped it read, deleted or wrote before, and
\* the call returns the doc of its own fetch and changes the outcome of no other
\* call: the entry of the path is the one of the set applied last, and a call
\* that resolved with what it fetched has issued exactly one set.
C20_LastWriteWins ==
    /\ [][\A c \in Calls :
            (pc[c] = "fetch" /\ pc'[c] = "resolved" /\ CoOf(c).enabled) =>
                /\ outcome'[c] = Resolved(remote[PathOf(c)])
                /\ store'[PathOf(c)] =
                      [doc |-> remote[PathOf(c)], fetchedAt |-> now,
                       persistentCacheTime |->
                           IF CoOf(c).locked THEN CoOf(c).time ELSE Undefined]
                /\ \A d \in Calls \ {c} : outcome'[d] = outcome[d]]_vars
    /\ [](\A c \in Calls :
            ResolvedWriter(c) =>
                /\ stats[c].fetches >= 1 /\ stats[c].sets = 1
                /\ outcome[c].kind = "doc"
                /\ store[PathOf(c)] # NoEntry)

\* two overlapping calls both found no entry and both fetched; their answers came
\* in together: both have resolved, one with doc 1 and one with doc 2, neither
\* caller has run on yet, and the entry of the path is the second one's
C20_Witness ==
    \E c, d \in Calls :
        /\ c # d
        /\ ResolvedWriter(c) /\ ResolvedWriter(d)
        /\ ~HasEntry(c) /\ ~HasEntry(d)
        /\ outcome[c] = Resolved(1) /\ outcome[d] = Resolved(2)
        /\ store[PathOf(d)].doc = 2

\* the entry of path p changes in this step only by being deleted or by being
\* written whole by the set of one call whose fetch succeeds in this step: doc
\* is what that fetch returned, fetchedAt is the time of that fetch, and
\* persistentCacheTime is that call's cacheTime.time when it set
\* cacheTime.locked and absent when it did not
WrittenAsUnit(p) ==
    store'[p] # store[p] =>
        \/ store'[p] = NoEntry
        \/ \E c \in Calls :
              /\ pc[c] = "fetch" /\ pc'[c] = "resolved"
              /\ PathOf(c) = p /\ CoOf(c).enabled
              /\ store'[p].doc = remote[p]
              /\ outcome'[c] = Resolved(store'[p].doc)
              /\ store'[p].fetchedAt = now
              /\ store'[p].persistentCacheTime =
                    IF CoOf(c).locked THEN CoOf(c).time ELSE Undefined

\* C21: entry integrity: under every interleaving of concurrent calls on a path,
\* each entry in the store was written as one unit by one successful fetch: doc
\* and fetchedAt come from that fetch and persistentCacheTime, if present, is
\* the cacheTime.time of the call that wrote it; an entry always has a fetchedAt
\* that is a time not after now.
C21_EntryIntegrity ==
    /\ [](\A p \in Paths : store[p] # NoEntry => store[p].fetchedAt \in 0..now)
    /\ [][\A p \in Paths : WrittenAsUnit(p)]_vars

\* two overlapping calls both found no entry: the first wrote its entry, then the
\* second, which locks a cache time of 1, replaced it with its own a millisecond
\* later, before the caller of the first ran on
C21_Witness ==
    \E c, d \in Calls :
        /\ c # d
        /\ ResolvedWriter(c) /\ ~HasEntry(c) /\ ~CoOf(c).locked
        /\ ResolvedWriter(d) /\ ~HasEntry(d) /\ CoOf(d).locked
        /\ stats[c].resolvedAt < stats[d].resolvedAt
        /\ store[PathOf(d)].persistentCacheTime = 1
        /\ store[PathOf(d)].fetchedAt = stats[d].resolvedAt

\* the entry call c found is fresh by the test its options select: the stored
\* lock for a cache-disabled call and for a call that neither locks nor bypasses
\* a (non-zero) stored lock, the call's own cacheTime.time otherwise; never with
\* forceRefresh on a cache-enabled call
FoundFresh(c) ==
    IF ~CoOf(c).enabled THEN LockedFresh(c)
    ELSE /\ ~CoOf(c).forceRefresh
         /\ IF cacheEntry[c].persistentCacheTime \notin {Undefined, 0}
                /\ ~CoOf(c).bypassLockedTime /\ ~CoOf(c).locked
            THEN LockedFresh(c)
            ELSE OneTimeFresh(c)

\* C22: a successful fetch of a remote document that does not exist resolves the
\* call with undefined and, with the cache enabled, stores an entry whose doc is
\* absent; a later call that finds such an entry treats it as an entry: when it
\* is fresh the call resolves with undefined from the cache, with no remote fetch.
C22_AbsentDocCached ==
    \A c \in Calls :
        /\ (pc[c] = "resolved" /\ ~stats[c].served /\ remote[PathOf(c)] = Undefined) =>
              /\ outcome[c] = Resolved(Undefined)
              /\ CoOf(c).enabled =>
                    /\ store[PathOf(c)] # NoEntry
                    /\ store[PathOf(c)].doc = Undefined
                    /\ store[PathOf(c)].fetchedAt = stats[c].resolvedAt
        /\ (PastGet(c) /\ HasEntry(c) /\ cacheEntry[c].doc = Undefined) =>
              /\ stats[c].served <=> FoundFresh(c)
              /\ stats[c].served =>
                    (outcome[c] = Resolved(Undefined) /\ stats[c].fetches = 0)
              /\ (CoOf(c).enabled /\ ~stats[c].served) =>
                    (pc[c] = "del" \/ stats[c].dels = 1)

\* a cache-enabled call was served undefined from an entry with an absent doc
\* although the remote document exists by now
C22_Witness ==
    \E c \in Calls :
        /\ pc[c] = "resolved" /\ stats[c].served /\ CoOf(c).enabled
        /\ HasEntry(c) /\ cacheEntry[c].doc = Undefined
        /\ outcome[c] = Resolved(Undefined)
        /\ remote[PathOf(c)] # Undefined

\* C23: a cache hit is read-only: a call that returns the cached doc, with the
\* cache enabled or not, made no remote fetch, no set and no del; the entry of
\* the path is the one its get found, and the value returned is the doc of it.
C23_HitIsReadOnly ==
    \A c \in Calls :
        stats[c].served =>
            /\ pc[c] = "resolved" /\ HasEntry(c)
            /\ stats[c].fetches = 0 /\ stats[c].failures = 0 /\ stats[c].delays = 0
            /\ stats[c].sets = 0 /\ stats[c].dels = 0
            /\ store[PathOf(c)] = cacheEntry[c]
            /\ outcome[c] = Resolved(store[PathOf(c)].doc)

\* a cache-enabled call with a one-time cache time of +infinity was served, at a
\* later time, an unlocked entry whose doc differs from the remote document
C23_Witness ==
    \E c \in Calls :
        /\ pc[c] = "resolved" /\ stats[c].served
        /\ CoOf(c).enabled /\ CoOf(c).time = Infinity /\ ~CoOf(c).locked
        /\ cacheEntry[c].persistentCacheTime = Undefined
        /\ cacheEntry[c].fetchedAt < now
        /\ remote[PathOf(c)] # cacheEntry[c].doc

\* C24: a cache-enabled call that refetches over an entry it found deletes the
\* entry before it issues the remote fetch: the del is issued by the get
\* callback and has completed when the first attempt is made; from the issue of
\* the del on the path has no entry, and when the fetch fails for good the call
\* is rejected and the path is left with no entry, the old doc and its lock gone.
C24_FailedRefetchLosesEntry ==
    \A c \in Calls :
        (PastGet(c) /\ CoOf(c).enabled /\ HasEntry(c) /\ ~stats[c].served) =>
            /\ pc[c] = "del" => (stats[c].fetches = 0 /\ stats[c].dels = 0)
            /\ stats[c].fetches >= 1 => stats[c].dels = 1
            /\ pc[c] \in {"del", "fetch", "delay", "rejected"} => store[PathOf(c)] = NoEntry
            /\ pc[c] = "rejected" => stats[c].failures >= 1

\* a refetch over an entry locked for ever was rejected after its second failed
\* attempt, and the path has no entry
C24_Witness ==
    \E c \in Calls :
        /\ pc[c] = "rejected" /\ CoOf(c).enabled /\ HasEntry(c)
        /\ cacheEntry[c].persistentCacheTime = Infinity
        /\ stats[c].failures = 2 /\ stats[c].dels = 1
        /\ store[PathOf(c)] = NoEntry

\* call c was made and its caller has not run on
Made(c) == pc[c] \notin {"idle", "done"}

\* C25: every call settles exactly once: a call that was made is resolved or
\* rejected in the end, whatever its cache and retry options and whether its
\* store operations and fetch attempts succeed or fail; its outcome is set once,
\* when it settles, and never changed after; and it makes no more attempts than
\* its budget.
C25_SettlesOnce ==
    /\ \A c \in Calls : Made(c) ~> Settled(c)
    /\ [](\A c \in Calls :
            /\ Settled(c) <=> outcome[c] # Pending
            /\ pc[c] = "resolved" <=> outcome[c].kind = "doc"
            /\ stats[c].fetches <= Budget(c))
    /\ [][\A c \in Calls :
            /\ outcome'[c] # outcome[c] => (outcome[c] = Pending \/ outcome'[c] = Pending)
            /\ Settled(c) => \/ pc'[c] = "idle"
                              \/ (pc'[c] = pc[c] /\ outcome'[c] = outcome[c])]_vars

====
